---- MODULE Spec2Model ----
(***************************************************************************)
(* Date-dimension generator (datedim_generate/generate.py): the holiday    *)
(* registry (class Holidays), argument validation (class Arguments) and    *)
(* the row generator (class DateDimensionGenerator).                       *)
(*                                                                         *)
(* Python values are tagged records, so that None, dates, datetimes,       *)
(* strings and values of other types stay distinct.  A date is its         *)
(* proleptic Gregorian ordinal (datetime.date.toordinal).  Text that the   *)
(* code parses or lower-cases is a sequence of one-character strings.      *)
(***************************************************************************)
EXTENDS Integers, Sequences, FiniteSets, TLC

VARIABLES
    h,      \* Holidays.holidays of a stand-alone registry: code -> calendar
    hcall,  \* the latest call on that registry: its argument, what it returned,
            \* the dict it started from, and whether an earlier call failed
    hlog,   \* history: the calendars the provider handed to that registry
    args,   \* the attributes of an Arguments object
    call,   \* what the latest __process_arguments call returned
    df,     \* what the latest DateDimensionGenerator.generate call returned
    script,     \* the stand-alone script: its Holidays class and objects
    scriptlog   \* the codes registered in the script, and its newest object

vars == <<h, hcall, hlog, args, call, df, script, scriptlog>>

(***************************************************************************)
(* Bounds of the model.                                                    *)
(***************************************************************************)
\* number of consecutive days, from Day0 on, that dates are drawn from
NumDays == 3
\* longest list of codes handed to the stand-alone registry
MaxCodes == 2
\* number of consecutive days of a calendar window that a range starts on
Span == 8
\* number of Holidays objects the script constructs
MaxInstances == 2
\* number of calendars appended to one list of the script
MaxEntries == 3

(***************************************************************************)
(* Python values.                                                          *)
(***************************************************************************)
PyNone == [t |-> "None"]
PyDate(o) == [t |-> "date", ord |-> o]
PyDatetime(o, hr) == [t |-> "datetime", ord |-> o, hour |-> hr]
PyStr(s) == [t |-> "str", s |-> s]
PyInt(n) == [t |-> "int", n |-> n]
PyBool(b) == [t |-> "bool", b |-> b]
PyList(l) == [t |-> "list", l |-> l]

\* isinstance(x, str)
IsStr(x) == x.t = "str"
\* isinstance(x, date): datetime is a subclass of date
IsDate(x) == x.t \in {"date", "datetime"}
\* isinstance(x, datetime)
IsDatetime(x) == x.t = "datetime"

(***************************************************************************)
(* datetime calendar arithmetic.                                           *)
(***************************************************************************)
IsLeap(y) == y % 4 = 0 /\ (y % 100 # 0 \/ y % 400 = 0)

DaysInMonth(y, m) ==
    IF m = 2 THEN (IF IsLeap(y) THEN 29 ELSE 28)
    ELSE IF m \in {4, 6, 9, 11} THEN 30 ELSE 31

RECURSIVE DaysBeforeMonth(_, _)
DaysBeforeMonth(y, m) ==
    IF m <= 1 THEN 0 ELSE DaysBeforeMonth(y, m - 1) + DaysInMonth(y, m - 1)

DaysBeforeYear(y) ==
    (y - 1) * 365 + ((y - 1) \div 4) - ((y - 1) \div 100) + ((y - 1) \div 400)

\* date(y, m, d).toordinal()
Ordinal(y, m, d) == DaysBeforeYear(y) + DaysBeforeMonth(y, m) + d

(***************************************************************************)
(* datetime.strptime(s, '%Y-%m-%d').date()                                 *)
(* The format compiles to \d\d\d\d-(1[0-2]|0[1-9]|[1-9])-                  *)
(* (3[01]|[12]\d|0[1-9]|[1-9]| [1-9]); text left over after the match and  *)
(* a day or year that is no date both raise ValueError.                    *)
(***************************************************************************)
Digits == {"0", "1", "2", "3", "4", "5", "6", "7", "8", "9"}

DigitVal(c) ==
    CASE c = "0" -> 0 [] c = "1" -> 1 [] c = "2" -> 2 [] c = "3" -> 3
      [] c = "4" -> 4 [] c = "5" -> 5 [] c = "6" -> 6 [] c = "7" -> 7
      [] c = "8" -> 8 [] c = "9" -> 9 [] OTHER -> 0

At(s, i) == IF i >= 1 /\ i <= Len(s) THEN s[i] ELSE "EOF"

RECURSIVE Number(_, _, _)
\* the value of the n digits of s that start at position i
Number(s, i, n) ==
    IF n = 0 THEN 0
    ELSE Number(s, i, n - 1) * 10 + DigitVal(At(s, i + n - 1))

\* how many characters the month group matches at position i (0: no match)
MonthWidth(s, i) ==
    IF At(s, i) = "1" /\ At(s, i + 1) \in {"0", "1", "2"} THEN 2
    ELSE IF At(s, i) = "0" /\ At(s, i + 1) \in Digits \ {"0"} THEN 2
    ELSE IF At(s, i) \in Digits \ {"0"} THEN 1
    ELSE 0

\* how many characters the day group matches at position i (0: no match)
DayWidth(s, i) ==
    IF At(s, i) = "3" /\ At(s, i + 1) \in {"0", "1"} THEN 2
    ELSE IF At(s, i) \in {"1", "2"} /\ At(s, i + 1) \in Digits THEN 2
    ELSE IF At(s, i) = "0" /\ At(s, i + 1) \in Digits \ {"0"} THEN 2
    ELSE IF At(s, i) \in Digits \ {"0"} THEN 1
    ELSE IF At(s, i) = " " /\ At(s, i + 1) \in Digits \ {"0"} THEN 2
    ELSE 0

\* [ok |-> the text parses, ord |-> the ordinal of the parsed date]
Strptime(s) ==
    LET yearOk == \A i \in 1..4 : At(s, i) \in Digits
        mw == MonthWidth(s, 6)
        dpos == 6 + mw + 1
        dw == DayWidth(s, dpos)
        y == Number(s, 1, 4)
        m == Number(s, 6, mw)
        d == IF At(s, dpos) = " " THEN Number(s, dpos + 1, 1)
             ELSE Number(s, dpos, dw)
        matched == /\ yearOk
                   /\ At(s, 5) = "-"
                   /\ mw > 0
                   /\ At(s, 6 + mw) = "-"
                   /\ dw > 0
                   /\ Len(s) = dpos + dw - 1
    IN  IF matched /\ y >= 1 /\ d <= DaysInMonth(y, m)
        THEN [ok |-> TRUE, ord |-> Ordinal(y, m, d)]
        ELSE [ok |-> FALSE, ord |-> 0]

(***************************************************************************)
(* str.lower()                                                             *)
(***************************************************************************)
UpperCase == <<"A", "B", "C", "D", "E", "F", "G", "H", "I", "J", "K", "L", "M",
               "N", "O", "P", "Q", "R", "S", "T", "U", "V", "W", "X", "Y", "Z">>

LowerCase == <<"a", "b", "c", "d", "e", "f", "g", "h", "i", "j", "k", "l", "m",
               "n", "o", "p", "q", "r", "s", "t", "u", "v", "w", "x", "y", "z">>

LowerChar(c) ==
    IF \E i \in 1..Len(UpperCase) : UpperCase[i] = c
    THEN LowerCase[CHOOSE i \in 1..Len(UpperCase) : UpperCase[i] = c]
    ELSE c

Lower(s) == [i \in 1..Len(s) |-> LowerChar(s[i])]

(***************************************************************************)
(* The holiday provider (the holidays package): country_holidays(code)     *)
(* and financial_holidays(code) return the calendar of a code they know    *)
(* and raise NotImplementedError for any other code.  A calendar maps the  *)
(* dates that are holidays to the holiday's name.                          *)
(***************************************************************************)
KnownCountry == {"US", "DE"}
KnownFinancial == {"ECB"}

ProviderCalendar(code) ==
    CASE code = "US" ->
            [t |-> "HolidayBase",
             days |-> (Ordinal(2021, 12, 31) :> "New Year's Day (observed)")
                      @@ (Ordinal(2022, 1, 1) :> "New Year's Day")]
      [] code = "DE" ->
            [t |-> "HolidayBase", days |-> (Ordinal(2022, 1, 1) :> "Neujahr")]
      [] code = "ECB" ->
            [t |-> "HolidayBase",
             days |-> (Ordinal(2022, 1, 1) :> "New Year's Day")]

\* holidays.country_holidays(code)
ProviderCountry(code) ==
    IF code \in KnownCountry
    THEN [raised |-> FALSE, cal |-> ProviderCalendar(code)]
    ELSE [raised |-> TRUE, cal |-> PyNone]

\* holidays.financial_holidays(code)
ProviderFinancial(code) ==
    IF code \in KnownFinancial
    THEN [raised |-> FALSE, cal |-> ProviderCalendar(code)]
    ELSE [raised |-> TRUE, cal |-> PyNone]

\* calendar.get(d): the holiday's name, or None
CalGet(cal, d) ==
    IF d \in DOMAIN cal.days THEN PyStr(cal.days[d]) ELSE PyNone

(***************************************************************************)
(* class Holidays                                                          *)
(***************************************************************************)
\* a dict with no key
EmptyDict == <<>>

\* Holidays.__init__: self.holidays = {}
HolidaysInit == EmptyDict

\* an assignment that drops the keys the dict held
DictSetReplacing(d, k, v) == (k :> v)

\* dict[k] = v

DictSet(d, k, v) ==
    [x \in (DOMAIN d) \cup {k} |-> IF x = k THEN v ELSE d[x]]

RECURSIVE AddCountriesAtomic(_, _, _)
\* a loop that registers nothing when some code of the list is unknown
AddCountriesAtomic(d, codes, i) ==
    IF \E j \in i..Len(codes) : ProviderCountry(codes[j]).raised
    THEN [holidays |-> d, res |-> "Err"]
    ELSE IF i > Len(codes) THEN [holidays |-> d, res |-> "Ok"]
    ELSE AddCountriesAtomic(DictSet(d, codes[i], ProviderCountry(codes[i]).cal),
                            codes, i + 1)

RECURSIVE AddCountriesSkipping(_, _, _)
\* a loop that passes over a code the provider does not know
AddCountriesSkipping(d, codes, i) ==
    IF i > Len(codes) THEN [holidays |-> d, res |-> "Ok"]
    ELSE LET got == ProviderCountry(codes[i])
         IN  IF got.raised THEN AddCountriesSkipping(d, codes, i + 1)
             ELSE AddCountriesSkipping(DictSet(d, codes[i], got.cal), codes, i + 1)

RECURSIVE AddCountries(_, _, _)
\* the try block of country_holidays, from the i-th code of the list on
AddCountries(d, codes, i) ==
    IF i > Len(codes) THEN [holidays |-> d, res |-> "Ok"]
    ELSE LET got == ProviderCountry(codes[i])
         IN  IF got.raised THEN [holidays |-> d, res |-> "Err"]
             ELSE AddCountries(DictSet(d, codes[i], got.cal), codes, i + 1)

RECURSIVE AddFinancials(_, _, _)
\* the try block of financial_holidays, from the i-th code of the list on
AddFinancials(d, codes, i) ==
    IF i > Len(codes) THEN [holidays |-> d, res |-> "Ok"]
    ELSE LET got == ProviderFinancial(codes[i])
         IN  IF got.raised THEN [holidays |-> d, res |-> "Err"]
             ELSE AddFinancials(DictSet(d, codes[i], got.cal), codes, i + 1)

\* Holidays.country_holidays(countries) on a registry whose dict is d
country_holidays(d, countries) ==
    IF IsStr(countries) THEN AddCountries(d, <<countries.s>>, 1)
    ELSE IF countries = PyNone THEN [holidays |-> d, res |-> "Ok"]
    ELSE AddCountries(d, countries.l, 1)

\* Holidays.financial_holidays(ids) on a registry whose dict is d
financial_holidays(d, ids) ==
    IF IsStr(ids) THEN AddFinancials(d, <<ids.s>>, 1)
    ELSE IF ids = PyNone THEN [holidays |-> d, res |-> "Ok"]
    ELSE AddFinancials(d, ids.l, 1)

\* an is_empty that answers as its docstring reads: True when a list was provided
is_empty_when_provided(d) == Cardinality(DOMAIN d) # 0

\* Holidays.is_empty
is_empty(d) == Cardinality(DOMAIN d) = 0

\* a check that asks for the date to be in every calendar
is_holiday_all(d, provided_date) ==
    \A c \in DOMAIN d : CalGet(d[c], provided_date) # PyNone

\* Holidays.is_holiday(provided_date)
is_holiday(d, provided_date) ==
    \E c \in DOMAIN d : CalGet(d[c], provided_date) # PyNone

\* the keys of the dict get_holiday_names builds for code c
FlagKey(c) == <<"is_holiday_", c>>
NameKey(c) == <<"holiday_name_", c>>

\* a dict that has entries only for the calendars the date is a holiday in
get_holiday_names_of_holidays(d, provided_date) ==
    LET codes == {c \in DOMAIN d : CalGet(d[c], provided_date) # PyNone}
        keys == {FlagKey(c) : c \in codes} \cup {NameKey(c) : c \in codes}
    IN  [k \in keys |->
            IF k[1] = "is_holiday_" THEN PyBool(TRUE)
            ELSE CalGet(d[k[2]], provided_date)]

\* Holidays.get_holiday_names(provided_date): a dict, key -> value
get_holiday_names(d, provided_date) ==
    LET codes == {c \in DOMAIN d : d[c] # PyNone}
        keys == {FlagKey(c) : c \in codes} \cup {NameKey(c) : c \in codes}
        holiday(c) == CalGet(d[c], provided_date)
    IN  [k \in keys |->
            LET c == k[2]
            IN  IF k[1] = "is_holiday_"
                THEN PyBool(holiday(c) # PyNone)
                ELSE holiday(c)]

(***************************************************************************)
(* class Arguments                                                         *)
(***************************************************************************)
csv == <<"c", "s", "v">>
parquet == <<"p", "a", "r", "q", "u", "e", "t">>

\* the class attributes, which a new Arguments object reads until it sets its own
ArgumentsInit ==
    [out_format |-> parquet,
     start_date |-> PyNone,
     end_date |-> PyNone,
     holidays |-> PyNone,
     use_holiday_names |-> FALSE]

\* the date a start_date or end_date of an accepted type stands for:
\* a datetime is cut to its date, a str is parsed, a date is kept
ToDate(x) ==
    IF IsDatetime(x) THEN [ok |-> TRUE, ord |-> x.ord]
    ELSE IF IsStr(x) THEN Strptime(x.s)
    ELSE [ok |-> TRUE, ord |-> x.ord]

\* a comparison the wrong way round
DateLess(a, b) == a < b

\* a comparison that also turns down equal dates
DateGreaterOrEqual(a, b) == a >= b

\* start_date > end_date, on two dates
DateGreater(a, b) == a > b

\* a match on the format as given, without lower()
ProcessFormatAsGiven(self, out_format) ==
    LET fmt == IF out_format = PyNone THEN PyStr(parquet) ELSE out_format
    IN  IF fmt.s = csv
        THEN [self |-> [self EXCEPT !.out_format = csv], res |-> "Ok", err |-> "none"]
        ELSE IF fmt.s = parquet
        THEN [self |-> [self EXCEPT !.out_format = parquet], res |-> "Ok", err |-> "none"]
        ELSE [self |-> self, res |-> "Err", err |-> "format"]

\* the output-format part of __process_arguments, on the object self
ProcessFormat(self, out_format) ==
    LET fmt == IF out_format = PyNone THEN PyStr(parquet) ELSE out_format
        low == Lower(fmt.s)
    IN  IF low = csv
        THEN [self |-> [self EXCEPT !.out_format = csv], res |-> "Ok", err |-> "none"]
        ELSE IF low = parquet
        THEN [self |-> [self EXCEPT !.out_format = parquet], res |-> "Ok", err |-> "none"]
        ELSE [self |-> self, res |-> "Err", err |-> "format"]

\* a names step that sets the flag when asked to and never clears it
ProcessNamesSetOnly(self, holiday_names_columns, out_format) ==
    IF holiday_names_columns.t # "bool"
    THEN [self |-> self, res |-> "Err", err |-> "names"]
    ELSE IF holiday_names_columns.b /\ ~is_empty(self.holidays.holidays)
    THEN ProcessFormat([self EXCEPT !.use_holiday_names = TRUE], out_format)
    ELSE ProcessFormat(self, out_format)

\* the holiday_names_columns part of __process_arguments, on the object self
ProcessNames(self, holiday_names_columns, out_format) ==
    IF holiday_names_columns.t # "bool"
    THEN [self |-> self, res |-> "Err", err |-> "names"]
    ELSE IF holiday_names_columns.b /\ is_empty(self.holidays.holidays)
    THEN ProcessFormat(self, out_format)
    ELSE ProcessFormat([self EXCEPT !.use_holiday_names = holiday_names_columns.b],
                       out_format)

\* a holidays step that adds to the registry the object already has
ProcessHolidaysKeeping(self, country, financial, holiday_names_columns, out_format) ==
    LET old == IF self.holidays = PyNone THEN HolidaysInit ELSE self.holidays.holidays
        c == country_holidays(old, country)
        f == financial_holidays(c.holidays, financial)
    IN  IF c.res = "Err" THEN [self |-> self, res |-> "Err", err |-> "country"]
        ELSE IF f.res = "Err" THEN [self |-> self, res |-> "Err", err |-> "financial"]
        ELSE ProcessNames(
                [self EXCEPT !.holidays = [t |-> "Holidays", holidays |-> f.holidays]],
                holiday_names_columns, out_format)

\* the holidays part of __process_arguments, on the object self
ProcessHolidays(self, country, financial, holiday_names_columns, out_format) ==
    LET c == country_holidays(HolidaysInit, country)
        f == financial_holidays(c.holidays, financial)
    IN  IF c.res = "Err" THEN [self |-> self, res |-> "Err", err |-> "country"]
        ELSE IF f.res = "Err" THEN [self |-> self, res |-> "Err", err |-> "financial"]
        ELSE ProcessNames(
                [self EXCEPT !.holidays = [t |-> "Holidays", holidays |-> f.holidays]],
                holiday_names_columns, out_format)

\* a call that gives the object its dates back when a holiday code is unknown
process_arguments_restoring(self, start_date, end_date, country, financial, names, out_format) ==
    IF start_date = PyNone \/ end_date = PyNone
    THEN [self |-> self, res |-> "Err", err |-> "missing"]
    ELSE IF ~(IsStr(start_date) \/ IsDate(start_date))
            \/ ~(IsStr(end_date) \/ IsDate(end_date))
    THEN [self |-> self, res |-> "Err", err |-> "type"]
    ELSE LET sd == ToDate(start_date)
             ed == ToDate(end_date)
         IN  IF ~sd.ok \/ ~ed.ok
             THEN [self |-> self, res |-> "Err", err |-> "value"]
             ELSE IF DateGreater(sd.ord, ed.ord)
             THEN [self |-> self, res |-> "Err", err |-> "order"]
             ELSE LET r == ProcessHolidays(
                              [self EXCEPT !.start_date = PyDate(sd.ord),
                                           !.end_date = PyDate(ed.ord)],
                              country, financial, names, out_format)
                  IN  IF r.err \in {"country", "financial"}
                      THEN [r EXCEPT !.self = self]
                      ELSE r

\* Arguments.__process_arguments on the object self:
\* [self |-> the object afterwards, res |-> "Ok" or "Err", err |-> the check that failed]
process_arguments(self, start_date, end_date, country, financial, names, out_format) ==
    IF start_date = PyNone \/ end_date = PyNone
    THEN [self |-> self, res |-> "Err", err |-> "missing"]
    ELSE IF ~(IsStr(start_date) \/ IsDate(start_date))
            \/ ~(IsStr(end_date) \/ IsDate(end_date))
    THEN [self |-> self, res |-> "Err", err |-> "type"]
    ELSE LET sd == ToDate(start_date)
             ed == ToDate(end_date)
         IN  IF ~sd.ok \/ ~ed.ok
             THEN [self |-> self, res |-> "Err", err |-> "value"]
             ELSE IF DateGreater(sd.ord, ed.ord)
             THEN [self |-> self, res |-> "Err", err |-> "order"]
             ELSE ProcessHolidays(
                    [self EXCEPT !.start_date = PyDate(sd.ord),
                                 !.end_date = PyDate(ed.ord)],
                    country, financial, names, out_format)

(***************************************************************************)
(* class DataFrame and class DateDimensionGenerator.  A table is its set   *)
(* of column names and its rows; a row maps each column name to a value.   *)
(* A column name is the sequence of the parts the code concatenates.       *)
(***************************************************************************)
RECURSIVE date_range_left(_, _)
\* the range with closed='left': the end date is left out
date_range_left(start, end) ==
    IF start >= end THEN <<>>
    ELSE <<start>> \o date_range_left(start + 1, end)

RECURSIVE date_range(_, _)
\* polars.date_range(start, end, "1d", closed='both', eager=True)
date_range(start, end) ==
    IF start > end THEN <<>>
    ELSE <<start>> \o date_range(start + 1, end)

\* the year, month and day of the date with ordinal o
YearOf(o) ==
    LET n == o - 1
        n400 == n \div 146097
        r400 == n % 146097
        n100 == r400 \div 36524
        r100 == r400 % 36524
        n4 == r100 \div 1461
        r4 == r100 % 1461
        n1 == r4 \div 365
        y == n400 * 400 + n100 * 100 + n4 * 4 + n1 + 1
    IN  IF n1 = 4 \/ n100 = 4 THEN y - 1 ELSE y

\* Series.dt.ordinal_day(): the day of the year, from 1
OrdinalDay(o) == o - DaysBeforeYear(YearOf(o))

\* Series.dt.month()
MonthOf(o) ==
    CHOOSE m \in 1..12 :
        /\ DaysBeforeMonth(YearOf(o), m) < OrdinalDay(o)
        /\ OrdinalDay(o) <= DaysBeforeMonth(YearOf(o), m) + DaysInMonth(YearOf(o), m)

\* Series.dt.day()
DayOfMonth(o) == OrdinalDay(o) - DaysBeforeMonth(YearOf(o), MonthOf(o))

\* a weekday number that counts from Sunday: 1 for Sunday to 7 for Saturday
WeekdayFromSunday(o) == (o % 7) + 1

\* Series.dt.weekday(): the ISO weekday, 1 for Monday to 7 for Sunday
Weekday(o) == ((o + 6) % 7) + 1

\* a month end that takes every month to have 30 days
MonthEndOfThirty(o) == Ordinal(YearOf(o), MonthOf(o), 30)

\* Series.dt.month_end(): the last date of the month of o
MonthEnd(o) ==
    Ordinal(YearOf(o), MonthOf(o), DaysInMonth(YearOf(o), MonthOf(o)))

\* a week 1 that is the week of 1 January, whatever its weekday
WeekOfJanuaryFirstMonday(y) == Ordinal(y, 1, 1) - ((Ordinal(y, 1, 1) + 6) % 7)

\* the Monday that starts ISO week 1 of year y: the week with its first Thursday
IsoWeek1Monday(y) ==
    LET firstday == Ordinal(y, 1, 1)
        firstweekday == (firstday + 6) % 7
        monday == firstday - firstweekday
    IN  IF firstweekday > 3 THEN monday + 7 ELSE monday

\* Series.dt.iso_year()
IsoYear(o) ==
    LET y == YearOf(o)
    IN  IF o < IsoWeek1Monday(y) THEN y - 1
        ELSE IF o >= IsoWeek1Monday(y + 1) THEN y + 1
        ELSE y

\* a week number that counts blocks of seven days from 1 January
WeekFromJanuaryFirst(o) == ((OrdinalDay(o) - 1) \div 7) + 1

\* Series.dt.week(): the ISO week of the year, from 1
IsoWeek(o) == ((o - IsoWeek1Monday(IsoYear(o))) \div 7) + 1

DayNames ==
    <<"Monday", "Tuesday", "Wednesday", "Thursday", "Friday", "Saturday", "Sunday">>

DayAbbreviations == <<"Mon", "Tue", "Wed", "Thu", "Fri", "Sat", "Sun">>

MonthNames ==
    <<"January", "February", "March", "April", "May", "June", "July",
      "August", "September", "October", "November", "December">>

MonthAbbreviations ==
    <<"Jan", "Feb", "Mar", "Apr", "May", "Jun", "Jul", "Aug", "Sep", "Oct",
      "Nov", "Dec">>

DigitChars == <<"0", "1", "2", "3", "4", "5", "6", "7", "8", "9">>

RECURSIVE Unpadded(_, _)
\* the number n written without leading zeros, whatever the width asked for
Unpadded(n, w) ==
    IF n < 10 THEN <<DigitChars[n + 1]>>
    ELSE Append(Unpadded(n \div 10, w), DigitChars[(n % 10) + 1])

RECURSIVE Padded(_, _)
\* the number n written with w digits, zero-padded: strftime %Y (w = 4), %m, %d
Padded(n, w) ==
    IF w = 0 THEN <<>>
    ELSE Append(Padded(n \div 10, w - 1), DigitChars[(n % 10) + 1])

\* Series.str.to_integer(): the number a text of digits writes
ToInteger(s) == Number(s, 1, Len(s))

\* n is a value of the unsigned integer type of the given number of bits
FitsUnsigned(n, bits) ==
    n >= 0 /\ n \div (2 ^ (bits \div 2)) < 2 ^ (bits \div 2)

\* Series.cast(UInt8), Series.cast(UInt32): the number itself when the type
\* holds it; the cast fails otherwise
Cast(n, bits) ==
    IF FitsUnsigned(n, bits) THEN PyInt(n) ELSE [t |-> "overflow", bits |-> bits]

\* the row of the table generate builds for the date with ordinal o
BaseRow(holidays, o) ==
    LET y == YearOf(o)
        m == MonthOf(o)
        d == DayOfMonth(o)
    IN  (<<"datekey">> :> Cast(ToInteger(Padded(y, 4) \o Padded(m, 2) \o Padded(d, 2)), 32))
        @@ (<<"date_raw">> :> PyDate(o))
        @@ (<<"dayofweek">> :> PyStr(DayNames[Weekday(o)]))
        @@ (<<"dayofweek_short">> :> PyStr(DayAbbreviations[Weekday(o)]))
        @@ (<<"month">> :> PyStr(MonthNames[m]))
        @@ (<<"year">> :> PyInt(y))
        @@ (<<"yearmonthnum">> :> Cast(ToInteger(Padded(y, 4) \o Padded(m, 2)), 32))
        @@ (<<"monthyear">> :> PyStr(<<MonthAbbreviations[m]>> \o Padded(y, 4)))
        @@ (<<"daynuminweek">> :> Cast(Weekday(o), 8))
        @@ (<<"daynuminmonth">> :> Cast(d, 8))
        @@ (<<"daynuminyear">> :> PyInt(OrdinalDay(o)))
        @@ (<<"monthnuminyear">> :> Cast(m, 8))
        @@ (<<"iso_year">> :> PyInt(IsoYear(o)))
        @@ (<<"iso_weeknuminyear">> :> PyInt(IsoWeek(o)))
        @@ (<<"is_last_day_in_week">> :> PyBool(Weekday(o) = 7))
        @@ (<<"is_last_day_in_month">> :> PyBool(o = MonthEnd(o)))
        @@ (<<"is_holiday">> :> PyBool(is_holiday(holidays, o)))
        @@ (<<"is_weekday">> :> PyBool(Weekday(o) < 6))

\* the table generate builds before the holiday name columns: a row for
\* each date of the range
BaseTable(a) ==
    LET dates == date_range(a.start_date.ord, a.end_date.ord)
        rows == [i \in 1..Len(dates) |-> BaseRow(a.holidays.holidays, dates[i])]
    IN  [t |-> "DataFrame",
         columns |-> UNION {DOMAIN rows[i] : i \in 1..Len(rows)},
         rows |-> rows]

\* DataFrame.generate_holiday_columns: the dict of each row's date becomes a
\* struct column, whose fields unnest turns into columns
generate_holiday_columns(table, holidays) ==
    LET dict(i) == get_holiday_names(holidays, table.rows[i][<<"date_raw">>].ord)
    IN  [t |-> "DataFrame",
         columns |-> table.columns
                     \cup UNION {DOMAIN dict(i) : i \in 1..Len(table.rows)},
         rows |-> [i \in 1..Len(table.rows) |-> dict(i) @@ table.rows[i]]]

\* a generate that adds the per-code columns whatever use_holiday_names is
generate_with_names(a) ==
    generate_holiday_columns(BaseTable(a), a.holidays.holidays)

\* DateDimensionGenerator.generate, on the arguments a
generate(a) ==
    IF a.use_holiday_names
    THEN generate_holiday_columns(BaseTable(a), a.holidays.holidays)
    ELSE BaseTable(a)

(***************************************************************************)
(* The stand-alone script (generate.py).                                   *)
(***************************************************************************)
\* last_day_of_month(d): calendar.monthrange(d.year, d.month)[1]
last_day_of_month(o) == DaysInMonth(YearOf(o), MonthOf(o))

\* the script's last_day_in_month column: x.day == last_day_of_month(x)
last_day_in_month(o) == DayOfMonth(o) = last_day_of_month(o)

\* class Holidays of the script: its class attribute, holidays = []
ScriptHolidaysClass == <<>>

\* an object that is given a list of its own when it is constructed
ScriptHolidaysOwnList == [own |-> TRUE, holidays |-> <<>>]

\* Holidays() in the script: the class has no __init__, so a new object has
\* no holidays attribute of its own
ScriptHolidaysObject == [own |-> FALSE, holidays |-> <<>>]

\* class Arguments of the script: its class attributes
ScriptArgumentsInit ==
    [out_format |-> parquet,
     start_date |-> PyNone,
     end_date |-> PyNone,
     holidays |-> PyNone]

\* the script before its first call: the class list, no Holidays object,
\* the Arguments object, and what the latest call returned
ScriptInit ==
    [holidays |-> ScriptHolidaysClass,
     inst |-> <<>>,
     args |-> ScriptArgumentsInit,
     returned |-> "none"]

\* self.holidays as object i reads it: its own attribute when it has one,
\* the class attribute otherwise
script_holidays(s, i) ==
    IF s.inst[i].own THEN s.inst[i].holidays ELSE s.holidays

\* self.holidays.append(cal) through object i: the list that is read is
\* the list that grows
script_append(s, i, cal) ==
    IF s.inst[i].own
    THEN [s EXCEPT !.inst[i].holidays = Append(@, cal)]
    ELSE [s EXCEPT !.holidays = Append(@, cal)]

RECURSIVE ScriptAddCountries(_, _, _, _)
\* the try block of the script's country_holidays, from the k-th code on
ScriptAddCountries(s, i, codes, k) ==
    IF k > Len(codes) THEN [script |-> s, res |-> "Ok"]
    ELSE LET got == ProviderCountry(codes[k])
         IN  IF got.raised THEN [script |-> s, res |-> "Err"]
             ELSE ScriptAddCountries(script_append(s, i, got.cal), i, codes, k + 1)

RECURSIVE ScriptAddFinancials(_, _, _, _)
\* the try block of the script's financial_holidays, from the k-th code on
ScriptAddFinancials(s, i, codes, k) ==
    IF k > Len(codes) THEN [script |-> s, res |-> "Ok"]
    ELSE LET got == ProviderFinancial(codes[k])
         IN  IF got.raised THEN [script |-> s, res |-> "Err"]
             ELSE ScriptAddFinancials(script_append(s, i, got.cal), i, codes, k + 1)

\* the script's Holidays.country_holidays(countries), called on object i
script_country_holidays(s, i, countries) == ScriptAddCountries(s, i, countries, 1)

\* the script's Holidays.financial_holidays(ids), called on object i
script_financial_holidays(s, i, ids) == ScriptAddFinancials(s, i, ids, 1)

\* the script's Holidays.is_holiday(date), called on object i
script_is_holiday(s, i, date) ==
    \E k \in 1..Len(script_holidays(s, i)) :
        CalGet(script_holidays(s, i)[k], date) # PyNone

\* holidays = Holidays() in the script
script_new_holidays(s) == [s EXCEPT !.inst = Append(@, ScriptHolidaysObject)]

\* the output-format part of the script's Arguments.parse
script_parse_format(s, out_format) ==
    IF Lower(out_format) = csv
    THEN [s EXCEPT !.args.out_format = csv, !.returned = "Ok"]
    ELSE IF Lower(out_format) = parquet
    THEN [s EXCEPT !.args.out_format = parquet, !.returned = "Ok"]
    ELSE [s EXCEPT !.returned = "Err"]

\* the holidays part of the script's Arguments.parse
script_parse_holidays(s, country, financial, out_format) ==
    LET made == script_new_holidays(s)
        i == Len(made.inst)
        c == script_country_holidays(made, i, country)
        f == script_financial_holidays(c.script, i, financial)
    IN  IF c.res = "Err" THEN [c.script EXCEPT !.returned = "Err"]
        ELSE IF f.res = "Err" THEN [f.script EXCEPT !.returned = "Err"]
        ELSE script_parse_format(
                [f.script EXCEPT !.args.holidays = [t |-> "Holidays", id |-> i]],
                out_format)

\* the script's Arguments.parse, on the values argparse hands it
script_parse(s, start_date, end_date, country, financial, out_format) ==
    IF start_date = PyNone \/ end_date = PyNone
    THEN [s EXCEPT !.returned = "Err"]
    ELSE LET sd == Strptime(start_date.s)
             ed == Strptime(end_date.s)
         IN  IF ~sd.ok \/ ~ed.ok THEN [s EXCEPT !.returned = "Err"]
             ELSE IF DateGreater(sd.ord, ed.ord) THEN [s EXCEPT !.returned = "Err"]
             ELSE script_parse_holidays(
                    [s EXCEPT !.args.start_date = PyDate(sd.ord),
                              !.args.end_date = PyDate(ed.ord)],
                    country, financial, out_format)

(***************************************************************************)
(* Inputs.                                                                 *)
(***************************************************************************)
Day0 == Ordinal(2021, 12, 30)
Dates == Day0 .. (Day0 + NumDays - 1)

\* codes handed to the stand-alone registry: known ones, an unknown one, ''
CodeInputs == KnownCountry \cup KnownFinancial \cup {"ABC", ""}

RECURSIVE SeqsUpTo(_, _)
\* the sequences over S of length at most n
SeqsUpTo(S, n) ==
    IF n = 0 THEN {<<>>}
    ELSE LET shorter == SeqsUpTo(S, n - 1)
         IN  shorter \cup {Append(q, x) : q \in shorter, x \in S}

\* lists with a code the provider does not know between codes it knows
MixedLists == {<<"US", "ABC", "DE">>, <<"ECB", "ABC", "ECB">>}

CodeArgs ==
    {PyNone} \cup {PyStr(c) : c \in CodeInputs}
    \cup {PyList(l) : l \in SeqsUpTo(CodeInputs, MaxCodes) \cup MixedLists}

DateStrings ==
    { <<"2", "0", "2", "1", "-", "1", "2", "-", "3", "1">>,
      <<"2", "0", "2", "2", "-", "1", "-", "1">>,
      <<"2", "0", "2", "2", "-", "1", "5", "-", "3", "1">>,
      <<>> }

DateArgs ==
    {PyNone, PyInt(20211231), PyDatetime(Day0 + 1, 12)}
    \cup {PyDate(d) : d \in Dates}
    \cup {PyStr(s) : s \in DateStrings}

CountryArgs ==
    {PyNone, PyList(<<"US">>), PyList(<<"US", "DE">>), PyList(<<"US", "ABC">>)}

FinancialArgs == {PyList(<<>>), PyList(<<"ECB">>), PyList(<<"XYZ">>)}

NamesArgs == {PyBool(TRUE), PyBool(FALSE), PyStr("true")}

FormatArgs ==
    {PyNone, PyStr(<<"C", "S", "V">>),
     PyStr(<<"P", "a", "R", "q", "U", "e", "T">>), PyStr(<<"s", "q", "l">>)}

\* calls that vary the two dates, with one setting of the other arguments
DateCalls ==
    [start_date : DateArgs, end_date : DateArgs,
     country : {PyStr("DE")}, financial : {PyNone},
     names : {PyBool(TRUE)}, out_format : {PyStr(csv)}]

\* calls that vary the other arguments, over the shortest and the longest range
OptionCalls ==
    [start_date : {PyDate(Day0)},
     end_date : {PyDate(Day0), PyDate(Day0 + NumDays - 1)},
     country : CountryArgs, financial : FinancialArgs,
     names : NamesArgs, out_format : FormatArgs]

CallArgs == DateCalls \cup OptionCalls

\* the days a calendar window starts on: the first day of year 1, the test's
\* 1992-01-02 with the turn of that year, the end of February in a century
\* year that is no leap year, in leap years, the end of a month of 30 days,
\* turns of years whose ISO year has 53 and 52 weeks, and the last days of
\* year 9999
WindowStarts ==
    {Ordinal(1, 1, 1), Ordinal(1900, 2, 24), Ordinal(1991, 12, 28),
     Ordinal(1992, 2, 25), Ordinal(2000, 2, 25), Ordinal(2020, 12, 28),
     Ordinal(2021, 4, 26), Ordinal(2021, 12, 27), Ordinal(2024, 12, 26),
     Ordinal(2025, 12, 26), Ordinal(9999, 12, 22)}

\* date.max
DateMax == Ordinal(9999, 12, 31)

\* the start dates of the calendar calls: Span days from each window start
CalendarDates ==
    {d \in {w + i : w \in WindowStarts, i \in 0..(Span - 1)} : d <= DateMax}

\* ranges of at most NumDays days in the calendar windows, with no holiday set
CalendarRanges ==
    {[start_date |-> PyDate(d), end_date |-> PyDate(d + n),
      country |-> PyNone, financial |-> PyList(<<>>),
      names |-> PyBool(FALSE), out_format |-> PyNone] :
        d \in CalendarDates, n \in 0..(NumDays - 1)}

\* the calendar calls whose end date is a date
CalendarCalls == {c \in CalendarRanges : c.end_date.ord <= DateMax}

\* the codes a country_holidays or financial_holidays argument holds, in order
CodesOf(arg) ==
    IF IsStr(arg) THEN <<arg.s>>
    ELSE IF arg = PyNone THEN <<>>
    ELSE arg.l

\* lists of codes the script is handed on its command line
ScriptCountryLists ==
    {<<>>, <<"US">>, <<"US", "DE">>, <<"US", "ABC">>, <<"ABC", "DE">>}

ScriptFinancialLists == {<<>>, <<"ECB">>, <<"XYZ">>}

\* the values argparse hands to the script's Arguments.parse: calls that
\* vary the dates, and calls that vary the other arguments
ScriptCalls ==
    [start_date : {PyNone, PyStr(<<"2", "0", "2", "1", "-", "1", "2", "-", "3", "1">>)},
     end_date : {PyStr(t) : t \in DateStrings},
     country : {<<"US">>}, financial : {<<>>}, out_format : {parquet}]
    \cup
    [start_date : {PyStr(<<"2", "0", "2", "1", "-", "1", "2", "-", "3", "1">>)},
     end_date : {PyStr(<<"2", "0", "2", "2", "-", "1", "-", "1">>)},
     country : ScriptCountryLists, financial : ScriptFinancialLists,
     out_format : {parquet, <<"C", "S", "V">>, <<"s", "q", "l">>}]

\* the codes of a list that come before its first code outside known
KnownPrefix(codes, known) ==
    {codes[i] : i \in {j \in 1..Len(codes) : \A k \in 1..j : codes[k] \in known}}

(***************************************************************************)
(* The state machine.                                                      *)
(***************************************************************************)
\* no __process_arguments call on the object yet
NoCall == [op |-> "init", res |-> "none", err |-> "none"]

\* no call on the stand-alone registry yet
NoHolidaysCall ==
    [op |-> "init", arg |-> PyNone, res |-> "none", before |-> EmptyDict,
     erred |-> FALSE]

\* nothing registered in the script yet; fresh is the Holidays object that
\* was constructed last, as long as nothing was registered since (0: none)
NoScriptLog == [codes |-> {}, fresh |-> 0]

Init ==
    /\ h = HolidaysInit
    /\ hcall = NoHolidaysCall
    /\ hlog = {}
    /\ args = ArgumentsInit
    /\ call = NoCall
    /\ df = PyNone
    /\ script = ScriptInit
    /\ scriptlog = NoScriptLog

\* h = Holidays()
HolidaysNew ==
    /\ h' = HolidaysInit
    /\ hcall' = NoHolidaysCall
    /\ hlog' = {}
    /\ UNCHANGED <<args, call, df, script, scriptlog>>

\* h.country_holidays(countries)
CountryHolidays ==
    \E countries \in CodeArgs :
        \E r \in {country_holidays(h, countries)} :
            /\ h' = r.holidays
            /\ hcall' = [op |-> "country", arg |-> countries, res |-> r.res,
                         before |-> h,
                         erred |-> hcall.erred \/ hcall.res = "Err"]
            /\ hlog' = hlog \cup KnownPrefix(CodesOf(countries), KnownCountry)
            /\ UNCHANGED <<args, call, df, script, scriptlog>>

\* h.financial_holidays(ids)
FinancialHolidays ==
    \E ids \in CodeArgs :
        \E r \in {financial_holidays(h, ids)} :
            /\ h' = r.holidays
            /\ hcall' = [op |-> "financial", arg |-> ids, res |-> r.res,
                         before |-> h,
                         erred |-> hcall.erred \/ hcall.res = "Err"]
            /\ hlog' = hlog \cup KnownPrefix(CodesOf(ids), KnownFinancial)
            /\ UNCHANGED <<args, call, df, script, scriptlog>>

\* arguments = Arguments()
ArgumentsNew ==
    /\ args' = ArgumentsInit
    /\ call' = NoCall
    /\ df' = PyNone
    /\ UNCHANGED <<h, hcall, hlog, script, scriptlog>>

\* arguments.__process_arguments(...)
ProcessArguments ==
    \E c \in CallArgs :
        \E r \in {process_arguments(args, c.start_date, c.end_date, c.country,
                                    c.financial, c.names, c.out_format)} :
            /\ args' = r.self
            /\ call' = [op |-> "process", res |-> r.res, err |-> r.err]
            /\ df' = PyNone
            /\ UNCHANGED <<h, hcall, hlog, script, scriptlog>>

\* DateDimensionGenerator(arguments).generate(): it raises on an object that
\* has no dates or no holidays yet
Generate ==
    /\ df' = IF args.start_date = PyNone \/ args.holidays = PyNone
             THEN [t |-> "raised"]
             ELSE generate(args)
    /\ UNCHANGED <<h, hcall, hlog, args, call, script, scriptlog>>

\* arguments.__process_arguments(...) with the dates of a calendar window
ProcessArgumentsCalendar ==
    \E c \in CalendarCalls :
        \E r \in {process_arguments(args, c.start_date, c.end_date, c.country,
                                    c.financial, c.names, c.out_format)} :
            /\ args' = r.self
            /\ call' = [op |-> "process", res |-> r.res, err |-> r.err]
            /\ df' = PyNone
            /\ UNCHANGED <<h, hcall, hlog, script, scriptlog>>

\* Holidays() in the script
ScriptHolidaysNew ==
    /\ Len(script.inst) < MaxInstances
    /\ script' = script_new_holidays(script)
    /\ scriptlog' = [scriptlog EXCEPT !.fresh = Len(script.inst) + 1]
    /\ UNCHANGED <<h, hcall, hlog, args, call, df>>

\* the script's country_holidays(countries) on one of its Holidays objects
ScriptCountryHolidays ==
    \E i \in 1..Len(script.inst) :
        \E countries \in ScriptCountryLists :
            \E r \in {script_country_holidays(script, i, countries)} :
                /\ Len(script_holidays(script, i)) + Len(countries) <= MaxEntries
                /\ script' = [r.script EXCEPT !.returned = r.res]
                /\ scriptlog' =
                      [codes |-> scriptlog.codes
                                 \cup KnownPrefix(countries, KnownCountry),
                       fresh |-> 0]
                /\ UNCHANGED <<h, hcall, hlog, args, call, df>>

\* the script's financial_holidays(ids) on one of its Holidays objects
ScriptFinancialHolidays ==
    \E i \in 1..Len(script.inst) :
        \E ids \in ScriptFinancialLists :
            \E r \in {script_financial_holidays(script, i, ids)} :
                /\ Len(script_holidays(script, i)) + Len(ids) <= MaxEntries
                /\ script' = [r.script EXCEPT !.returned = r.res]
                /\ scriptlog' =
                      [codes |-> scriptlog.codes \cup KnownPrefix(ids, KnownFinancial),
                       fresh |-> 0]
                /\ UNCHANGED <<h, hcall, hlog, args, call, df>>

\* the script's Arguments().parse()
ScriptParse ==
    \E c \in ScriptCalls :
        \E r \in {script_parse(script, c.start_date, c.end_date, c.country,
                               c.financial, c.out_format)} :
            /\ Len(script.inst) < MaxInstances
            /\ Len(script.holidays) + Len(c.country) + Len(c.financial) <= MaxEntries
            /\ script' = r
            /\ scriptlog' =
                  IF Len(r.inst) = Len(script.inst) THEN scriptlog
                  ELSE LET countries == KnownPrefix(c.country, KnownCountry)
                           ids == IF \A k \in 1..Len(c.country) : c.country[k] \in KnownCountry
                                  THEN KnownPrefix(c.financial, KnownFinancial)
                                  ELSE {}
                       IN  [codes |-> scriptlog.codes \cup countries \cup ids,
                            fresh |-> IF countries \cup ids = {}
                                      THEN Len(r.inst) ELSE 0]
            /\ UNCHANGED <<h, hcall, hlog, args, call, df>>

NextScript ==
    ScriptHolidaysNew \/ ScriptCountryHolidays \/ ScriptFinancialHolidays \/ ScriptParse

NextHolidays == HolidaysNew \/ CountryHolidays \/ FinancialHolidays

Next == ArgumentsNew \/ ProcessArguments \/ Generate

NextCalendar == ProcessArgumentsCalendar \/ Generate

\* a stand-alone Holidays registry under any sequence of calls
SpecHolidays == Init /\ [][NextHolidays]_vars

\* an Arguments object under any sequence of calls, and the table generated from it
Spec == Init /\ [][Next]_vars

\* the tables generated over the calendar windows
SpecCalendar == Init /\ [][NextCalendar]_vars

\* the stand-alone script's Holidays objects under any sequence of calls
SpecScript == Init /\ [][NextScript]_vars

(***************************************************************************)
(* Properties.                                                             *)
(***************************************************************************)
\* what the provider says: date o is a holiday of the calendar of code c
InCalendar(c, o) == o \in DOMAIN ProviderCalendar(c).days

\* the name the provider's calendar of code c has for date o
NameInCalendar(c, o) == ProviderCalendar(c).days[o]

\* the columns every generated table has
BaseColumns ==
    {<<"datekey">>, <<"date_raw">>, <<"dayofweek">>, <<"dayofweek_short">>,
     <<"month">>, <<"year">>, <<"yearmonthnum">>, <<"monthyear">>,
     <<"daynuminweek">>, <<"daynuminmonth">>, <<"daynuminyear">>,
     <<"monthnuminyear">>, <<"iso_year">>, <<"iso_weeknuminyear">>,
     <<"is_last_day_in_week">>, <<"is_last_day_in_month">>, <<"is_holiday">>,
     <<"is_weekday">>}

\* C1: generate produces exactly end - start + 1 rows, and row i (counted
\* from 0) has date_raw = start + i days: both endpoints are included and no
\* day is missing or repeated.
C1_OneRowPerDay ==
    df.t = "DataFrame" =>
        LET start == args.start_date.ord
            end == args.end_date.ord
        IN  /\ start <= end
            /\ Len(df.rows) = end - start + 1
            /\ \A i \in 1..Len(df.rows) :
                  df.rows[i][<<"date_raw">>] = PyDate(start + (i - 1))

\* a table over the longest range of the model, which has a row for each day
C1_Witness ==
    /\ df.t = "DataFrame"
    /\ args.start_date = PyDate(Day0)
    /\ args.end_date = PyDate(Day0 + NumDays - 1)
    /\ Len(df.rows) = NumDays

\* C2: is_holiday(d) is True if and only if one of the calendars registered
\* so far, country or financial, contains d; a further registration never
\* turns is_holiday(d) from True to False.
C2_IsHolidayIsUnion ==
    \A d \in Dates :
        /\ is_holiday(h, d) <=> \E c \in hlog : InCalendar(c, d)
        /\ hcall.op # "init" /\ is_holiday(hcall.before, d) => is_holiday(h, d)

\* a country and a financial calendar are registered, the latest call added
\* one of them, and a day of only one registered calendar is a holiday
C2_Witness ==
    /\ hlog = {"US", "ECB"}
    /\ hcall.res = "Ok"
    /\ DOMAIN hcall.before # DOMAIN h
    /\ is_holiday(h, Ordinal(2021, 12, 31))
    /\ ~is_holiday(h, Day0)

\* C3: get_holiday_names(d) has, for every registered code c, exactly the
\* keys is_holiday_c and holiday_name_c and no key of another code;
\* is_holiday_c is True exactly when calendar c contains d, and
\* holiday_name_c is the calendar's name for d then and None otherwise.
C3_NamesPerCode ==
    \A d \in Dates :
        LET names == get_holiday_names(h, d)
        IN  /\ DOMAIN names = {FlagKey(c) : c \in hlog} \cup {NameKey(c) : c \in hlog}
            /\ \A c \in hlog :
                  /\ names[FlagKey(c)] = PyBool(InCalendar(c, d))
                  /\ names[NameKey(c)] =
                        IF InCalendar(c, d) THEN PyStr(NameInCalendar(c, d))
                        ELSE PyNone

\* two calendars are registered and some day is a holiday in only one of them
C3_Witness ==
    /\ hlog = {"US", "DE"}
    /\ LET names == get_holiday_names(h, Ordinal(2021, 12, 31))
       IN  /\ names[FlagKey("US")] = PyBool(TRUE)
           /\ names[NameKey("DE")] = PyNone

\* C4: in every row of a table generated with the holiday name columns, the
\* is_holiday column is the logical OR of the is_holiday_<code> columns of
\* the registered codes.
C4_CombinedIsOr ==
    df.t = "DataFrame" /\ args.use_holiday_names =>
        \A i \in 1..Len(df.rows) :
            LET row == df.rows[i]
                flags == {k \in DOMAIN row : k[1] = "is_holiday_"}
            IN  /\ flags = {FlagKey(c) : c \in DOMAIN args.holidays.holidays}
                /\ row[<<"is_holiday">>] = PyBool(\E k \in flags : row[k].b)

\* a row that is a holiday in one registered calendar and not in the other
C4_Witness ==
    /\ df.t = "DataFrame"
    /\ args.use_holiday_names
    /\ \E i \in 1..Len(df.rows) :
          /\ FlagKey("US") \in DOMAIN df.rows[i]
          /\ FlagKey("DE") \in DOMAIN df.rows[i]
          /\ df.rows[i][<<"is_holiday">>] = PyBool(TRUE)
          /\ df.rows[i][FlagKey("US")] = PyBool(TRUE)
          /\ df.rows[i][FlagKey("DE")] = PyBool(FALSE)

\* C5: country_holidays and financial_holidays return Err exactly when the
\* list holds a code the provider does not know (the empty string is one),
\* and Ok otherwise; for the empty list and for None they add no calendar.
\* This holds after an earlier Err on the same registry as well.
C5_ErrIffUnknownCode ==
    hcall.op # "init" =>
        LET known == IF hcall.op = "country" THEN KnownCountry ELSE KnownFinancial
            codes == CodesOf(hcall.arg)
            unknown == \E i \in 1..Len(codes) : codes[i] \notin known
        IN  /\ hcall.res = (IF unknown THEN "Err" ELSE "Ok")
            /\ "" \notin known
            /\ codes = <<>> => h = hcall.before
            /\ ~unknown => DOMAIN h = DOMAIN hcall.before \cup KnownPrefix(codes, known)

\* a registration that succeeds and adds a calendar on a registry on which an
\* earlier call has returned Err
C5_Witness ==
    /\ hcall.erred
    /\ hcall.res = "Ok"
    /\ DOMAIN h # DOMAIN hcall.before

\* what a call hands to __process_arguments returns, from the object as it is
Returned(c) ==
    process_arguments(args, c.start_date, c.end_date, c.country, c.financial,
                      c.names, c.out_format)

\* the date a date text of the model stands for, read as year-month-day
\* (0: the text is no date)
DateOfText(s) ==
    IF s = <<"2", "0", "2", "1", "-", "1", "2", "-", "3", "1">>
    THEN Ordinal(2021, 12, 31)
    ELSE IF s = <<"2", "0", "2", "2", "-", "1", "-", "1">>
    THEN Ordinal(2022, 1, 1)
    ELSE 0

\* x is a date, a datetime or a text that parses as a date
GoodDate(x) ==
    \/ x.t \in {"date", "datetime"}
    \/ x.t = "str" /\ DateOfText(x.s) # 0

\* the calendar day a good date stands for
DayOf(x) == IF x.t = "str" THEN DateOfText(x.s) ELSE x.ord

\* both dates are given, are good, and are in order
DatesAccepted(c) ==
    /\ GoodDate(c.start_date)
    /\ GoodDate(c.end_date)
    /\ DayOf(c.start_date) <= DayOf(c.end_date)

\* the codes a call gives: of countries, of markets
CountryCodes(c) == {CodesOf(c.country)[i] : i \in 1..Len(CodesOf(c.country))}
FinancialCodes(c) == {CodesOf(c.financial)[i] : i \in 1..Len(CodesOf(c.financial))}

\* every code a call gives is one the provider knows
CodesValid(c) ==
    CountryCodes(c) \subseteq KnownCountry /\ FinancialCodes(c) \subseteq KnownFinancial

\* text s is word in some capitalisation
IsCapitalisationOf(s, word) ==
    /\ Len(s) = Len(word)
    /\ \A i \in 1..Len(s) :
          \/ s[i] = word[i]
          \/ \E j \in 1..Len(LowerCase) : LowerCase[j] = word[i] /\ UpperCase[j] = s[i]

\* the format a call asks for: csv, parquet, or "other"
FormatAsked(c) ==
    IF c.out_format = PyNone THEN parquet
    ELSE IF IsCapitalisationOf(c.out_format.s, csv) THEN csv
    ELSE IF IsCapitalisationOf(c.out_format.s, parquet) THEN parquet
    ELSE <<"other">>

\* C6: with the other arguments valid, __process_arguments returns Ok if and
\* only if both dates are given, each is a date, a datetime or a string that
\* parses as a date, and start_date <= end_date (equal dates are accepted);
\* the object then holds the two dates, a datetime cut to its date.
C6_OkIffDatesValid ==
    \A c \in CallArgs :
        CodesValid(c) /\ c.names.t = "bool" /\ FormatAsked(c) # <<"other">> =>
            \A r \in {Returned(c)} :
                /\ r.res = (IF DatesAccepted(c) THEN "Ok" ELSE "Err")
                /\ r.res = "Ok" =>
                      /\ r.self.start_date = PyDate(DayOf(c.start_date))
                      /\ r.self.end_date = PyDate(DayOf(c.end_date))

\* a call with equal start and end date has returned Ok
C6_Witness ==
    /\ call.res = "Ok"
    /\ args.start_date = PyDate(Ordinal(2022, 1, 1))
    /\ args.end_date = PyDate(Ordinal(2022, 1, 1))

\* C7: a call that passes the earlier checks sets out_format to 'csv' for
\* any capitalisation of 'csv', to 'parquet' for any capitalisation of
\* 'parquet' and for an omitted format, and returns Err for any other string,
\* leaving out_format as it was; out_format is always 'csv' or 'parquet'.
C7_FormatCaseInsensitive ==
    /\ args.out_format \in {csv, parquet}
    /\ \A c \in CallArgs :
          DatesAccepted(c) /\ CodesValid(c) /\ c.names.t = "bool" =>
              \A r \in {Returned(c)} :
                  IF FormatAsked(c) = <<"other">>
                  THEN r.res = "Err" /\ r.self.out_format = args.out_format
                  ELSE r.res = "Ok" /\ r.self.out_format = FormatAsked(c)

\* a call with an unknown format has returned Err on an object whose format
\* an earlier call had set to 'csv', and the format is still 'csv'
C7_Witness ==
    /\ call.res = "Err"
    /\ call.err = "format"
    /\ args.out_format = csv

\* C8: after a successful call that registers at least one holiday set,
\* use_holiday_names is the holiday_names_columns value of that call,
\* whatever it was before; a holiday_names_columns that is no boolean
\* returns Err.
C8_NamesFlagFollowsCall ==
    \A c \in CallArgs :
        \A r \in {Returned(c)} :
            /\ c.names.t # "bool" => r.res = "Err"
            /\ r.res = "Ok" /\ CountryCodes(c) \cup FinancialCodes(c) # {} =>
                  r.self.use_holiday_names = c.names.b

\* a successful call that registered holidays has set the flag, and a
\* further call on the object would clear it again
C8_Witness ==
    /\ call.res = "Ok"
    /\ args.use_holiday_names
    /\ ~is_empty(args.holidays.holidays)
    /\ \E c \in CallArgs :
          /\ Returned(c).res = "Ok"
          /\ ~Returned(c).self.use_holiday_names

\* C9: after a successful call, args.holidays holds exactly the calendars
\* of the codes given in that call; codes of earlier calls are not present.
C9_HolidaysOfThisCall ==
    \A c \in CallArgs :
        \A r \in {Returned(c)} :
            r.res = "Ok" =>
                /\ r.self.holidays # PyNone
                /\ DOMAIN r.self.holidays.holidays = CountryCodes(c) \cup FinancialCodes(c)
                /\ \A code \in DOMAIN r.self.holidays.holidays :
                      r.self.holidays.holidays[code] = ProviderCalendar(code)

\* a successful call has left the object with the financial code alone,
\* and a further call with country codes alone would drop it again
C9_Witness ==
    /\ call.res = "Ok"
    /\ DOMAIN args.holidays.holidays = {"ECB"}
    /\ \E c \in CallArgs :
          /\ Returned(c).res = "Ok"
          /\ DOMAIN Returned(c).self.holidays.holidays = {"US", "DE"}

\* C10: with use_holiday_names set, the table has the columns
\* is_holiday_<code> and holiday_name_<code> of every registered code and of
\* no other code, in every row, and is_holiday_<code> is False in every row
\* when no date of the range is a holiday of that calendar; with
\* use_holiday_names not set the table has no per-code column.
C10_PerCodeColumns ==
    df.t = "DataFrame" =>
        LET codes == DOMAIN args.holidays.holidays
            percode == df.columns \ BaseColumns
            range == args.start_date.ord .. args.end_date.ord
        IN  /\ \A i \in 1..Len(df.rows) : DOMAIN df.rows[i] = df.columns
            /\ BaseColumns \subseteq df.columns
            /\ IF args.use_holiday_names
               THEN /\ percode = {FlagKey(c) : c \in codes} \cup {NameKey(c) : c \in codes}
                    /\ \A c \in codes :
                          (\A o \in range : ~InCalendar(c, o)) =>
                              \A i \in 1..Len(df.rows) :
                                  df.rows[i][FlagKey(c)] = PyBool(FALSE)
               ELSE percode = {}

\* a table with the columns of a country and a financial code over a range
\* that has no holiday of either calendar
C10_Witness ==
    /\ df.t = "DataFrame"
    /\ args.use_holiday_names
    /\ DOMAIN args.holidays.holidays = {"US", "ECB"}
    /\ {FlagKey("US"), NameKey("US"), FlagKey("ECB"), NameKey("ECB")} \subseteq df.columns
    /\ \A i \in 1..Len(df.rows) :
          /\ df.rows[i][FlagKey("US")] = PyBool(FALSE)
          /\ df.rows[i][FlagKey("ECB")] = PyBool(FALSE)

\* C11: when holiday name columns are asked for (holiday_names_columns=True)
\* and no holiday set is given, a call with valid dates and format returns Ok
\* and leaves use_holiday_names False, from every object earlier calls can
\* have left, so that generate adds no per-code column.
C11_NamesIgnoredWithoutHolidays ==
    \A c \in CallArgs :
        (/\ c.names = PyBool(TRUE)
         /\ CountryCodes(c) \cup FinancialCodes(c) = {}
         /\ DatesAccepted(c)
         /\ FormatAsked(c) # <<"other">>) =>
            \A r \in {Returned(c)} :
                /\ r.res = "Ok"
                /\ ~r.self.use_holiday_names
                /\ generate(r.self).columns = BaseColumns

MonthLength(y, m) ==
    CASE m \in {4, 6, 9, 11} -> 30
      [] m = 2 -> IF (y % 4 = 0 /\ y % 100 # 0) \/ y % 400 = 0 THEN 29 ELSE 28
      [] OTHER -> 31

\* the value row i of the generated table has in a column
Value(i, column) == df.rows[i][<<column>>]

\* row i is the row of the date Y-M-D that its year, monthnuminyear and
\* daynuminmonth name
RowHasItsDate(i) ==
    LET Y == Value(i, "year").n
        M == Value(i, "monthnuminyear").n
        D == Value(i, "daynuminmonth").n
    IN  /\ Y \in 1..9999
        /\ M \in 1..12
        /\ D \in 1..MonthLength(Y, M)
        /\ Value(i, "date_raw") = PyDate(Ordinal(Y, M, D))

\* C13: in every generated row, of the date Y-M-D, datekey is the integer
\* Y*10000 + M*100 + D and yearmonthnum is the integer Y*100 + M, and both
\* are values of an unsigned 32-bit integer, for years from 1 to 9999.
C13_NumericKeys ==
    df.t = "DataFrame" =>
        \A i \in 1..Len(df.rows) :
            LET Y == Value(i, "year").n
                M == Value(i, "monthnuminyear").n
                D == Value(i, "daynuminmonth").n
            IN  /\ RowHasItsDate(i)
                /\ Value(i, "datekey") = PyInt(Y * 10000 + M * 100 + D)
                /\ Value(i, "yearmonthnum") = PyInt(Y * 100 + M)
                /\ FitsUnsigned(Y * 10000 + M * 100 + D, 32)
                /\ FitsUnsigned(Y * 100 + M, 32)

\* the table that starts on 1992-01-02 has the keys 19920102 and 199201 in
\* its first row
C13_Witness ==
    /\ df.t = "DataFrame"
    /\ Value(1, "date_raw") = PyDate(Ordinal(1992, 1, 2))
    /\ Value(1, "datekey") = PyInt(19920102)
    /\ Value(1, "yearmonthnum") = PyInt(199201)

\* the English name of ISO weekday n
IsoDayName(n) ==
    CASE n = 1 -> "Monday" [] n = 2 -> "Tuesday" [] n = 3 -> "Wednesday"
      [] n = 4 -> "Thursday" [] n = 5 -> "Friday" [] n = 6 -> "Saturday"
      [] n = 7 -> "Sunday"

\* the ISO weekday of the date with ordinal o, counted from 1992-01-02,
\* a Thursday
IsoWeekdayOf(o) ==
    (((((o - Ordinal(1992, 1, 2)) + 3) % 7) + 7) % 7) + 1

\* C14: in every generated row daynuminweek is the ISO weekday number
\* (1 = Monday ... 7 = Sunday) and dayofweek is the name of that day,
\* is_weekday is True exactly when daynuminweek < 6 and is_last_day_in_week
\* exactly when daynuminweek = 7; from a row to the next daynuminweek goes up
\* by one, and from 7 to 1.
C14_WeekdayColumns ==
    df.t = "DataFrame" =>
        \A i \in 1..Len(df.rows) :
            LET n == Value(i, "daynuminweek").n
            IN  /\ n \in 1..7
                /\ n = IsoWeekdayOf(Value(i, "date_raw").ord)
                /\ Value(i, "dayofweek") = PyStr(IsoDayName(n))
                /\ Value(i, "is_weekday") = PyBool(n < 6)
                /\ Value(i, "is_last_day_in_week") = PyBool(n = 7)
                /\ i < Len(df.rows) =>
                      Value(i + 1, "daynuminweek").n = (IF n = 7 THEN 1 ELSE n + 1)

\* a table that goes from a Sunday to a Monday
C14_Witness ==
    /\ df.t = "DataFrame"
    /\ Len(df.rows) >= 2
    /\ Value(1, "daynuminweek") = PyInt(7)
    /\ Value(1, "dayofweek") = PyStr("Sunday")
    /\ Value(1, "is_last_day_in_week") = PyBool(TRUE)
    /\ Value(1, "is_weekday") = PyBool(FALSE)
    /\ Value(2, "daynuminweek") = PyInt(1)
    /\ Value(2, "is_weekday") = PyBool(TRUE)

\* C15: in every generated row is_last_day_in_month is True if and only if
\* daynuminmonth is the number of days of the row's month in the row's year
\* (28 or 29 for February by the Gregorian leap-year rule), that is, if and
\* only if the next row is of a different month; the stand-alone script's
\* last_day_in_month has the same value for the row's date.
C15_LastDayInMonth ==
    df.t = "DataFrame" =>
        \A i \in 1..Len(df.rows) :
            LET Y == Value(i, "year").n
                M == Value(i, "monthnuminyear").n
                D == Value(i, "daynuminmonth").n
                last == Value(i, "is_last_day_in_month")
            IN  /\ RowHasItsDate(i)
                /\ last = PyBool(D = MonthLength(Y, M))
                /\ last = PyBool(last_day_in_month(Value(i, "date_raw").ord))
                /\ i < Len(df.rows) =>
                      last = PyBool(Value(i + 1, "monthnuminyear").n # M)

\* a table with 29 February of a leap year as the last day of its month,
\* after a 28 February that is not, and before 1 March
C15_Witness ==
    /\ df.t = "DataFrame"
    /\ Len(df.rows) >= 3
    /\ Value(1, "date_raw") = PyDate(Ordinal(2000, 2, 28))
    /\ Value(1, "is_last_day_in_month") = PyBool(FALSE)
    /\ Value(2, "daynuminmonth") = PyInt(29)
    /\ Value(2, "is_last_day_in_month") = PyBool(TRUE)
    /\ Value(3, "monthnuminyear") = PyInt(3)

\* the Thursday of the Monday-to-Sunday week of the date with ordinal o
ThursdayOfWeek(o) == o - IsoWeekdayOf(o) + 4

\* C16: in every generated row iso_year is the calendar year of the Thursday
\* of the row's Monday-to-Sunday week and iso_weeknuminyear counts the
\* Thursdays of that year up to it, so that week 1 is the week with the
\* year's first Thursday; iso_weeknuminyear is in 1..53, and iso_year is the
\* calendar year but for dates from 29 to 31 December, where it can be the
\* next year, and from 1 to 3 January, where it can be the year before.
C16_IsoYearAndWeek ==
    df.t = "DataFrame" =>
        \A i \in 1..Len(df.rows) :
            LET Y == Value(i, "year").n
                M == Value(i, "monthnuminyear").n
                D == Value(i, "daynuminmonth").n
                iy == Value(i, "iso_year").n
                wk == Value(i, "iso_weeknuminyear").n
                th == ThursdayOfWeek(Value(i, "date_raw").ord)
            IN  /\ RowHasItsDate(i)
                /\ Ordinal(iy, 1, 1) <= th
                /\ th < Ordinal(iy + 1, 1, 1)
                /\ wk = ((th - Ordinal(iy, 1, 1)) \div 7) + 1
                /\ wk \in 1..53
                /\ iy \in {Y - 1, Y, Y + 1}
                /\ iy = Y + 1 => M = 12 /\ D >= 29
                /\ iy = Y - 1 => M = 1 /\ D <= 3

\* a table from Sunday 2021-01-03, in week 53 of ISO year 2020, to Monday
\* 2021-01-04, in week 1 of ISO year 2021
C16_Witness ==
    /\ df.t = "DataFrame"
    /\ Len(df.rows) >= 2
    /\ Value(1, "date_raw") = PyDate(Ordinal(2021, 1, 3))
    /\ Value(1, "iso_year") = PyInt(2020)
    /\ Value(1, "iso_weeknuminyear") = PyInt(53)
    /\ Value(2, "iso_year") = PyInt(2021)
    /\ Value(2, "iso_weeknuminyear") = PyInt(1)

\* C17: between two consecutive rows of a generated table the pair
\* (iso_year, iso_weeknuminyear) changes if and only if the earlier row has
\* is_last_day_in_week True; when it changes, either the week number goes up
\* by one in the same iso_year, or it goes back to 1 and iso_year goes up by
\* one.
C17_WeekChangesAfterSunday ==
    df.t = "DataFrame" =>
        \A i \in 1..(Len(df.rows) - 1) :
            LET iy == Value(i, "iso_year").n
                wk == Value(i, "iso_weeknuminyear").n
                iyNext == Value(i + 1, "iso_year").n
                wkNext == Value(i + 1, "iso_weeknuminyear").n
                changes == <<iy, wk>> # <<iyNext, wkNext>>
            IN  /\ changes <=> Value(i, "is_last_day_in_week") = PyBool(TRUE)
                /\ changes =>
                      \/ iyNext = iy /\ wkNext = wk + 1
                      \/ iyNext = iy + 1 /\ wkNext = 1

\* a table from Sunday 2024-12-29, the last day of week 52 of ISO year 2024,
\* to Monday 2024-12-30, in week 1 of ISO year 2025, and on to Tuesday in
\* the same week
C17_Witness ==
    /\ df.t = "DataFrame"
    /\ Len(df.rows) >= 3
    /\ Value(1, "date_raw") = PyDate(Ordinal(2024, 12, 29))
    /\ Value(1, "is_last_day_in_week") = PyBool(TRUE)
    /\ <<Value(1, "iso_year"), Value(1, "iso_weeknuminyear")>> = <<PyInt(2024), PyInt(52)>>
    /\ <<Value(2, "iso_year"), Value(2, "iso_weeknuminyear")>> = <<PyInt(2025), PyInt(1)>>
    /\ <<Value(3, "iso_year"), Value(3, "iso_weeknuminyear")>> = <<PyInt(2025), PyInt(1)>>

\* the place of the first code of a list that is outside known (0: none)
FirstUnknown(codes, known) ==
    IF \A i \in 1..Len(codes) : codes[i] \in known THEN 0
    ELSE CHOOSE i \in 1..Len(codes) :
            /\ codes[i] \notin known
            /\ \A k \in 1..(i - 1) : codes[k] \in known

\* C18: a country_holidays or financial_holidays call that returns Err on a
\* list with an unknown code has registered every known code that comes
\* before the first unknown one, with the provider's calendar, and is_holiday
\* and get_holiday_names answer by those calendars; a code that comes after
\* the unknown one is not registered by the call, and what was registered
\* before the call is kept.
C18_PartialRegistrationOnErr ==
    hcall.op # "init" /\ hcall.res = "Err" =>
        LET known == IF hcall.op = "country" THEN KnownCountry ELSE KnownFinancial
            codes == CodesOf(hcall.arg)
            first == FirstUnknown(codes, known)
            before == {codes[k] : k \in 1..(first - 1)}
            after == {codes[k] : k \in (first + 1)..Len(codes)}
        IN  /\ first # 0
            /\ DOMAIN h = DOMAIN hcall.before \cup before
            /\ \A c \in before : h[c] = ProviderCalendar(c)
            /\ \A c \in DOMAIN hcall.before \ before : h[c] = hcall.before[c]
            /\ \A c \in after \ (before \cup DOMAIN hcall.before) : c \notin DOMAIN h
            /\ \A d \in Dates :
                  /\ (\E c \in before : InCalendar(c, d)) => is_holiday(h, d)
                  /\ \A c \in before :
                        /\ FlagKey(c) \in DOMAIN get_holiday_names(h, d)
                        /\ get_holiday_names(h, d)[FlagKey(c)] = PyBool(InCalendar(c, d))

\* country_holidays(['US', 'ABC', 'DE']) on an empty registry has returned
\* Err and left 'US' registered alone, and 2021-12-31 is a holiday
C18_Witness ==
    /\ hcall.op = "country"
    /\ hcall.res = "Err"
    /\ hcall.arg = PyList(<<"US", "ABC", "DE">>)
    /\ DOMAIN hcall.before = {}
    /\ DOMAIN h = {"US"}
    /\ is_holiday(h, Ordinal(2021, 12, 31))

\* the registry a call with valid codes builds: the provider's calendar of
\* each of its codes
RegistryOf(c) ==
    [t |-> "Holidays",
     holidays |-> [code \in CountryCodes(c) \cup FinancialCodes(c) |->
                      ProviderCalendar(code)]]

\* C19: a call that fails the validation of its dates (a date missing, of a
\* wrong type, a text that is no date, start after end) returns Err and
\* changes no attribute of the object; a call with good dates and an unknown
\* holiday code returns Err with start_date and end_date set to its dates and
\* holidays as it was; a call with good dates and codes and a
\* holiday_names_columns that is no boolean, or an output format that is not
\* known, returns Err with the dates set and holidays replaced by the
\* registry of its codes.
C19_PartialUpdateOnErr ==
    \A c \in CallArgs :
        \A r \in {Returned(c)} :
            IF ~DatesAccepted(c)
            THEN r.res = "Err" /\ r.self = args
            ELSE IF ~CodesValid(c)
            THEN /\ r.res = "Err"
                 /\ r.self.start_date = PyDate(DayOf(c.start_date))
                 /\ r.self.end_date = PyDate(DayOf(c.end_date))
                 /\ r.self.holidays = args.holidays
            ELSE IF c.names.t # "bool" \/ FormatAsked(c) = <<"other">>
            THEN /\ r.res = "Err"
                 /\ r.self.start_date = PyDate(DayOf(c.start_date))
                 /\ r.self.end_date = PyDate(DayOf(c.end_date))
                 /\ r.self.holidays = RegistryOf(c)
            ELSE r.res = "Ok"

\* a call with an unknown country code has returned Err on an object that
\* holds the registry of an earlier call; calls that would fail on their
\* dates, on the names flag and on the format can follow, the first leaving
\* the object as it is and the others replacing the registry
C19_Witness ==
    /\ call.res = "Err"
    /\ call.err = "country"
    /\ args.holidays # PyNone
    /\ DOMAIN args.holidays.holidays = {"ECB"}
    /\ args.start_date = PyDate(Day0)
    /\ \E c \in CallArgs :
          /\ Returned(c).err = "order"
          /\ Returned(c).self = args
    /\ \E c \in CallArgs :
          /\ Returned(c).err = "names"
          /\ Returned(c).self.holidays # args.holidays
    /\ \E c \in CallArgs :
          /\ Returned(c).err = "format"
          /\ Returned(c).self.holidays # args.holidays

\* C20: after any sequence of calls, whatever they returned, start_date and
\* end_date are both None or both dates with start_date <= end_date, so that
\* generate is never handed a range that runs backwards.
C20_DatesInOrder ==
    \/ args.start_date = PyNone /\ args.end_date = PyNone
    \/ /\ args.start_date.t = "date"
       /\ args.end_date.t = "date"
       /\ args.start_date.ord <= args.end_date.ord

\* a call with start after end has returned Err on an object that holds the
\* dates of an earlier call, in order
C20_Witness ==
    /\ call.res = "Err"
    /\ call.err = "order"
    /\ args.start_date.t = "date"
    /\ args.start_date.ord < args.end_date.ord

\* C21: in the stand-alone script the list of calendars is an attribute of
\* the class, shared by all Holidays objects: a calendar appended through one
\* object is read through every other object, so that is_holiday through any
\* object is True exactly for the dates of the calendars registered through
\* any object; in particular is_holiday through a newly constructed object
\* is True for the dates of the calendars registered through the objects
\* constructed before it.
C21_ScriptListIsShared ==
    /\ \A i \in 1..Len(script.inst) :
          /\ \A j \in 1..Len(script.inst) :
                script_holidays(script, i) = script_holidays(script, j)
          /\ \A d \in Dates :
                script_is_holiday(script, i, d) <=>
                    \E c \in scriptlog.codes : InCalendar(c, d)
    /\ scriptlog.fresh # 0 =>
          \A c \in scriptlog.codes :
              \A d \in Dates :
                  InCalendar(c, d) => script_is_holiday(script, scriptlog.fresh, d)

\* a second Holidays object, newly constructed after 'US' was registered
\* through the first, answers True for 2021-12-31
C21_Witness ==
    /\ Len(script.inst) = 2
    /\ scriptlog.fresh = 2
    /\ "US" \in scriptlog.codes
    /\ script_is_holiday(script, 2, Ordinal(2021, 12, 31))

====
